---- MODULE Spec2Model ----
(***************************************************************************)
(* Model of the drawing-pipe geometry kernel and its analysis entry points *)
(* (shapes.py, pipes.py, process.py, api/domain.py, api/services).         *)
(*                                                                         *)
(* Floats are modelled as fixed-point integers: the float x is the integer *)
(* x * Scale, every product and quotient is rounded toward zero to that    *)
(* resolution.  A numpy float that may be inf/nan is a record NpFloat.     *)
(***************************************************************************)
EXTENDS Integers, Sequences, FiniteSets, TLC

VARIABLES
    caller,     \* "kernel": a ProcessAnalysis built directly; "api": POST /api/analyze
    profile,    \* ProfilePayload.pipes of the request served (<<>> for the kernel)
    pipes,      \* ProcessAnalysis.pipes
    response,   \* outcome of the last property read / request
    shape,      \* the shape object last constructed on its own (NoShape: none yet)
    data_dir,   \* the files of drawing_pipe/templates/data (NoDir: no such directory)
    lru_cache,  \* the lru_cache of load_template_payloads: its entry and counters
    loading,    \* the callers inside the body of load_template_payloads
    heap,       \* the list objects of the dashboard process, by identity
    editable_pipes,             \* st.session_state["editable_pipes"]: a list object
    transition_edit_seq,        \* st.session_state["transition_edit_seq"]
    transition_last_change_at,  \* st.session_state["transition_last_change_at"]
    transition_applied_seq,     \* st.session_state["transition_applied_seq"]
    pending_pipe_updates,       \* st.session_state["pending_pipe_updates"]
    now,                        \* time.monotonic(), in polling intervals
    debounce_seconds,           \* the "Edit debounce" slider, in polling intervals
    widget_identity             \* how the framework identifies a keyed widget

shapeVars == <<shape>>

cacheVars == <<data_dir, lru_cache, loading>>

debounceVars ==
    <<transition_edit_seq, transition_last_change_at, transition_applied_seq,
      pending_pipe_updates>>

dashVars == <<heap, editable_pipes, debounceVars, now, debounce_seconds, widget_identity>>

vars == <<caller, profile, pipes, response, shapeVars, cacheVars, dashVars>>

----------------------------------------------------------------------------
(* Bounds of the model *)

Scale == 100
MaxPipes == 3
MaxOffset == 1
AreaPoints == 9
MaxCalls == 3
MaxRows == 3
MaxEdits == 2
MaxTime == 2

----------------------------------------------------------------------------
(* Fixed-point float arithmetic *)

F(n) == n * Scale

Abs(a) == IF a < 0 THEN -a ELSE a

Min(a, b) == IF a < b THEN a ELSE b

\* quotient rounded toward zero (sign-symmetric, as IEEE rounding is)
TruncDiv(a, b) ==
    LET q == Abs(a) \div Abs(b)
    IN  IF (a < 0) = (b < 0) THEN q ELSE -q

Mul(a, b) == TruncDiv(a * b, Scale)

Quot(a, b) == TruncDiv(a * Scale, b)

RECURSIVE SqrtSearch(_, _, _)
SqrtSearch(n, lo, hi) ==
    IF lo >= hi THEN lo
    ELSE LET mid == (lo + hi + 1) \div 2
         IN  IF mid <= n \div mid THEN SqrtSearch(n, mid, hi)
                               ELSE SqrtSearch(n, lo, mid - 1)

\* floor of the square root of a non-negative integer
ISqrt(n) == SqrtSearch(n, 0, n)

Sqrt(a) == ISqrt(a * Scale)

\* np.pi
PI == TruncDiv(355 * Scale, 113)

\* np.linalg.norm of the 2-vector (dx, dy)
Norm(dx, dy) == Sqrt(Mul(dx, dx) + Mul(dy, dy))

----------------------------------------------------------------------------
(* Outcomes: a returned value or a raised Python exception *)

Ok(v) == [outcome |-> "ok", value |-> v]

Raise(e) == [outcome |-> e, value |-> <<>>]

\* Python float division: a zero divisor raises ZeroDivisionError
PyDiv(a, b) == IF b = 0 THEN Raise("ZeroDivisionError") ELSE Ok(Quot(a, b))

\* numpy float64 division: a zero divisor yields inf, -inf or nan (a
\* RuntimeWarning, no exception)
NpFloat(c, v) == [class |-> c, val |-> v]

NpDiv(a, b) ==
    IF b # 0 THEN NpFloat("finite", Quot(a, b))
    ELSE IF a = 0 THEN NpFloat("nan", 0)
    ELSE IF a > 0 THEN NpFloat("inf", 0)
    ELSE NpFloat("-inf", 0)

----------------------------------------------------------------------------
(* shapes.py: the shape value objects (frozen pydantic models) *)

Circle(o, d) == [kind |-> "Circle", origin |-> o, diameter |-> d]

Rect(o, l, w, r) ==
    [kind |-> "Rect", origin |-> o, length |-> l, width |-> w, fillet_radius |-> r]

Ellipse(o, a, b) ==
    [kind |-> "Ellipse", origin |-> o, major_axis |-> a, minor_axis |-> b]

CubicSplineShape(o, p1, p2, p3) ==
    [kind |-> "CubicSplineShape", origin |-> o, v1 |-> p1, v2 |-> p2, v3 |-> p3]

\* the attributes an instance answers: its fields and its properties
ShapeAttrs(s) ==
    DOMAIN s \cup
    (IF s.kind = "CubicSplineShape" THEN {"vertices", "area"} ELSE {"area"})

HasAttr(s, name) == name \in ShapeAttrs(s)

Circle_area(s) ==
    LET half == Quot(s.diameter, F(2))
    IN  Mul(Mul(half, half), PI)

Rect_area(s) ==
    LET r == s.fillet_radius
        base_area == Mul(s.length, s.width)
        corner_correction == Mul(F(4), Mul(r, r)) - Mul(PI, Mul(r, r))
    IN  base_area - corner_correction

Ellipse_area(s) == Quot(Mul(Mul(PI, s.major_axis), s.minor_axis), F(4))

CubicSplineShape_vertices(s) ==
    LET ox == s.origin[1]
        oy == s.origin[2]
    IN  << <<s.v1[1] + ox, s.v1[2] + oy>>,
           <<s.v2[1] + ox, s.v2[2] + oy>>,
           <<s.v3[1] + ox, s.v3[2] + oy>>,
           <<s.v2[1] + ox, -s.v2[2] + oy>>,
           <<ox, -s.v1[2] + oy>>,
           <<-s.v2[1] + ox, -s.v2[2] + oy>>,
           <<-s.v3[1] + ox, oy>>,
           <<-s.v2[1] + ox, s.v2[2] + oy>> >>

\* variant: np.linspace(0, n, num_points, endpoint=False)
Linspace_endpoint_excluded(n, num_points) ==
    [k \in 1..num_points |-> TruncDiv((k - 1) * F(n), num_points)]

\* np.linspace(0, n, num_points): num_points values from 0 to n inclusive
Linspace(n, num_points) ==
    IF num_points = 1 THEN <<0>>
    ELSE [k \in 1..num_points |-> TruncDiv((k - 1) * F(n), num_points - 1)]

\* First row of the inverse, times 336, of the circulant matrix (1 4 1) of the
\* periodic cubic spline through 8 unit-spaced knots.
SplineKernel == <<97, -26, 7, -2, 1, -2, 7, -26>>

\* Second derivatives at the knots 0..n-1 of the periodic cubic spline through
\* ys (n + 1 values, the last repeating the first), n = 8.
SplineMoments(ys) ==
    LET n == Len(ys) - 1
        at(j) == ys[((j + n) % n) + 1]
        d(j) == 6 * (at(j + 1) - 2 * at(j) + at(j - 1))
        RECURSIVE sum(_, _)
        sum(i, j) == IF j = n THEN 0
                     ELSE SplineKernel[((i - j + n) % n) + 1] * d(j) + sum(i, j + 1)
    IN  [i \in 1..n |-> TruncDiv(sum(i - 1, 0), 336)]

\* scipy CubicSpline(t, ys, bc_type="periodic") evaluated at t, t in [0, n]
SplineEval(ys, moments, t) ==
    LET n == Len(ys) - 1
        i == Min(t \div Scale, n - 1)
        u == t - F(i)
        w == Scale - u
        m0 == moments[i + 1]
        m1 == moments[((i + 1) % n) + 1]
        cube(z) == Mul(Mul(z, z), z)
    IN    TruncDiv(Mul(m0, cube(w)), 6) + TruncDiv(Mul(m1, cube(u)), 6)
        + Mul(ys[i + 1] - TruncDiv(m0, 6), w) + Mul(ys[i + 2] - TruncDiv(m1, 6), u)

get_spline_points(s, num_points) ==
    LET verts == CubicSplineShape_vertices(s)
        n == Len(verts)
        x == [k \in 1..(n + 1) |-> verts[((k - 1) % n) + 1][1]]
        y == [k \in 1..(n + 1) |-> verts[((k - 1) % n) + 1][2]]
        mx == SplineMoments(x)
        my == SplineMoments(y)
        t_fine == Linspace(n, num_points)
    IN  << [k \in 1..num_points |-> SplineEval(x, mx, t_fine[k])],
           [k \in 1..num_points |-> SplineEval(y, my, t_fine[k])] >>

RECURSIVE ShoelaceSum(_, _, _)
ShoelaceSum(x, y, k) ==
    IF k >= Len(x) THEN 0
    ELSE Mul(x[k], y[k + 1]) - Mul(x[k + 1], y[k]) + ShoelaceSum(x, y, k + 1)

CubicSplineShape_area(s) ==
    LET pts == get_spline_points(s, AreaPoints)
    IN  Abs(ShoelaceSum(pts[1], pts[2], 1)) \div 2

\* shape.area, dispatched on the class of the instance
AreaProperty(s) ==
    CASE s.kind = "Circle" -> Circle_area(s)
      [] s.kind = "Rect" -> Rect_area(s)
      [] s.kind = "Ellipse" -> Ellipse_area(s)
      [] s.kind = "CubicSplineShape" -> CubicSplineShape_area(s)

----------------------------------------------------------------------------
(* The shapes of the model *)

Pt(x, y) == <<F(x), F(y)>>

Origins == {Pt(x, y) : x \in 0..MaxOffset, y \in 0..MaxOffset}

Circles == {Circle(o, F(d)) : o \in Origins, d \in {4, 6, 8}}

Rects ==
    {Rect(o, F(lw[1]), F(lw[2]), F(r)) :
        o \in Origins, lw \in {<<8, 6>>, <<4, 6>>, <<4, 4>>}, r \in {1, 3}}

Splines ==
    {CubicSplineShape(o, Pt(0, v[1]), Pt(v[2], v[2]), Pt(v[3], 0)) :
        o \in Origins, v \in {<<8, 6, 8>>, <<7, 5, 7>>, <<5, 4, 5>>}}

Ellipses == {Ellipse(Pt(0, 0), F(6), F(4))}

Shapes == Circles \cup Rects \cup Splines \cup Ellipses

\* Shapes are frozen and area is a pure function of a shape's own fields: the
\* areas of the model's shapes are computed once.
AreaOfShape == [s \in Shapes |-> AreaProperty(s)]

ShapeArea(s) == AreaOfShape[s]

----------------------------------------------------------------------------
(* pipes.py: a Pipe pairs an outer and an inner shape; cls is its class *)

MkPipe(cls, outer, inner) == [class |-> cls, outer |-> outer, inner |-> inner]

\* variant: the two areas added instead of subtracted
Pipe_area_sum(p) == ShapeArea(p.outer) + ShapeArea(p.inner)

Pipe_area(p) == ShapeArea(p.outer) - ShapeArea(p.inner)

Pipe_eccentricity(p) ==
    Norm(p.outer.origin[1] - p.inner.origin[1], p.outer.origin[2] - p.inner.origin[2])

\* variant: the thinnest wall of an eccentric pipe, which depends on the origins
CircleCircle_thickness_min_wall(p) ==
    IF ~HasAttr(p.outer, "diameter") \/ ~HasAttr(p.inner, "diameter")
    THEN Raise("AttributeError")
    ELSE LET thickness == Quot(p.outer.diameter - p.inner.diameter, F(2))
         IN  Ok([k \in 1..5 |-> thickness - Pipe_eccentricity(p)])

CircleCircle_thickness(p) ==
    IF ~HasAttr(p.outer, "diameter") \/ ~HasAttr(p.inner, "diameter")
    THEN Raise("AttributeError")
    ELSE LET thickness == Quot(p.outer.diameter - p.inner.diameter, F(2))
         IN  Ok([k \in 1..5 |-> thickness])

\* the index rule of the thickness loops: landmarks 0 and 4 measure the
\* vertical gap, landmark 2 the horizontal gap, 1 and 3 the distance
LandmarkDistances(outer_pts, inner_pts) ==
    [k \in 1..5 |->
        LET i == k - 1
            ox == outer_pts[k][1]
            oy == outer_pts[k][2]
            ix == inner_pts[k][1]
            iy == inner_pts[k][2]
        IN  IF i = 0 \/ i = 4 THEN Abs(oy - iy)
            ELSE IF i = 2 THEN Abs(ox - ix)
            ELSE Norm(ox - ix, oy - iy)]

\* the five points RectRect.thickness derives from one Rect
RectRect_pts(s) ==
    LET ox == s.origin[1]
        oy == s.origin[2]
        r == s.fillet_radius
        l == s.length
        w == s.width
    IN  << <<ox, oy + Quot(l, F(2))>>,
           <<ox - Quot(w, F(2)) + r, oy + Quot(l, F(2)) - r>>,
           <<ox - Quot(w, F(2)), oy>>,
           <<ox - Quot(w, F(2)) + r, oy - Quot(l, F(2)) + r>>,
           <<ox, oy - Quot(l, F(2))>> >>

RectRect_thickness(p) ==
    IF \E a \in {"fillet_radius", "length", "width"} :
          ~HasAttr(p.outer, a) \/ ~HasAttr(p.inner, a)
    THEN Raise("AttributeError")
    ELSE Ok(LandmarkDistances(RectRect_pts(p.outer), RectRect_pts(p.inner)))

\* variant: the straight-line distance at every landmark
SplineSpline_thickness_euclid(p) ==
    IF ~HasAttr(p.outer, "vertices") \/ ~HasAttr(p.inner, "vertices")
    THEN Raise("AttributeError")
    ELSE LET ov == CubicSplineShape_vertices(p.outer)
             iv == CubicSplineShape_vertices(p.inner)
         IN  Ok([k \in 1..5 |-> Norm(ov[k][1] - iv[k][1], ov[k][2] - iv[k][2])])

SplineSpline_thickness(p) ==
    IF ~HasAttr(p.outer, "vertices") \/ ~HasAttr(p.inner, "vertices")
    THEN Raise("AttributeError")
    ELSE Ok(LandmarkDistances(SubSeq(CubicSplineShape_vertices(p.outer), 1, 5),
                              SubSeq(CubicSplineShape_vertices(p.inner), 1, 5)))

\* variant: a base-class default that answers zeros for every other class
Thickness_default_zero(p) ==
    CASE p.class = "CircleCircle" -> CircleCircle_thickness(p)
      [] p.class = "RectRect" -> RectRect_thickness(p)
      [] p.class = "SplineSpline" -> SplineSpline_thickness(p)
      [] OTHER -> Ok([k \in 1..5 |-> 0])

\* pipe.thickness: the property of the pipe's class; Pipe, CircleRect and
\* EllipseRect define none
Thickness(p) ==
    CASE p.class = "CircleCircle" -> CircleCircle_thickness(p)
      [] p.class = "RectRect" -> RectRect_thickness(p)
      [] p.class = "SplineSpline" -> SplineSpline_thickness(p)
      [] OTHER -> Raise("AttributeError")

----------------------------------------------------------------------------
(* visualization/point_generators.py: the landmark points of the marker display *)

\* get_rect_points of a Rect: Top, Top-Right, Right, Bottom-Right, Bottom
get_rect_points(rect) ==
    LET ox == rect.origin[1]
        oy == rect.origin[2]
        length == rect.length
        width == rect.width
        r == rect.fillet_radius
        arc_offset == Quot(r, Sqrt(F(2)))
    IN  << <<ox, oy + Quot(length, F(2))>>,
           <<ox + Quot(width, F(2)) - r + arc_offset, oy + Quot(length, F(2)) - r + arc_offset>>,
           <<ox + Quot(width, F(2)), oy>>,
           <<ox + Quot(width, F(2)) - r + arc_offset, oy - Quot(length, F(2)) + r - arc_offset>>,
           <<ox, oy - Quot(length, F(2))>> >>

----------------------------------------------------------------------------
(* vertex_generators.py: the outline of a Rect *)

\* cos and sin of theta = 0, pi/4, pi/2: the first, the middle and the last of
\* the 15 angles np.linspace(0, np.pi / 2, arc_points) of one corner arc
ArcAngles ==
    << [cos |-> F(1), sin |-> 0],
       [cos |-> Quot(F(1), Sqrt(F(2))), sin |-> Quot(F(1), Sqrt(F(2)))],
       [cos |-> 0, sin |-> F(1)] >>

\* the four corner arcs (top-right, top-left, bottom-left, bottom-right), each
\* sampled at ArcAngles; cos(theta + q pi/2), sin(theta + q pi/2) by quarter q
generate_rounded_rect_verts(center, width, height, radius) ==
    LET cx == center[1]
        cy == center[2]
        hw == Quot(width, F(2))
        hh == Quot(height, F(2))
        max_r == Min(hw, hh)
        r == Min(radius, max_r)
        arc(x0, y0, quarter) ==
            [k \in 1..Len(ArcAngles) |->
                LET c == ArcAngles[k].cos
                    sn == ArcAngles[k].sin
                    co == CASE quarter = 0 -> c [] quarter = 1 -> -sn
                            [] quarter = 2 -> -c [] OTHER -> sn
                    si == CASE quarter = 0 -> sn [] quarter = 1 -> c
                            [] quarter = 2 -> -sn [] OTHER -> -c
                IN  <<x0 + Mul(r, co), y0 + Mul(r, si)>>]
    IN  arc(cx + hw - r, cy + hh - r, 0) \o arc(cx - hw + r, cy + hh - r, 1)
        \o arc(cx - hw + r, cy - hh + r, 2) \o arc(cx + hw - r, cy - hh + r, 3)

\* _rect_vertices, the generator get_vertices looks up for a Rect
Rect_vertices(rect) ==
    generate_rounded_rect_verts(rect.origin, rect.width, rect.length,
                                rect.fillet_radius)

----------------------------------------------------------------------------
(* process.py: ProcessAnalysis *)

\* variant: the pairing closed into a cycle, the last pipe paired with the first
ConsecutivePairs_cyclic(ps) ==
    [i \in 1..Len(ps) |-> <<ps[i], ps[(i % Len(ps)) + 1]>>]

\* variant: every stage paired with the first one instead of its predecessor
ConsecutivePairs_from_first(ps) ==
    [i \in 1..(IF Len(ps) > 1 THEN Len(ps) - 1 ELSE 0) |-> <<ps[1], ps[i + 1]>>]

\* zip(pipes[:-1], pipes[1:])
ConsecutivePairs(ps) ==
    [i \in 1..(IF Len(ps) > 1 THEN Len(ps) - 1 ELSE 0) |-> <<ps[i], ps[i + 1]>>]

\* A for loop that appends one value per iteration and returns the list: the
\* first iteration that raises ends it, and its exception reaches the caller.
Collect(rs) ==
    IF \E i \in 1..Len(rs) : rs[i].outcome # "ok"
    THEN Raise(rs[CHOOSE i \in 1..Len(rs) :
                     /\ rs[i].outcome # "ok"
                     /\ \A j \in 1..(i - 1) : rs[j].outcome = "ok"].outcome)
    ELSE Ok([i \in 1..Len(rs) |-> rs[i].value])

\* variant: a zero initial area guarded by reporting no reduction
AreaReduction_guarded(initial, final) ==
    IF Pipe_area(initial) = 0 THEN Ok(0)
    ELSE PyDiv(Pipe_area(initial) - Pipe_area(final), Pipe_area(initial))

\* reduction = (initial.area - final.area) / initial.area
AreaReduction(initial, final) ==
    PyDiv(Pipe_area(initial) - Pipe_area(final), Pipe_area(initial))

area_reductions(ps) ==
    LET pairs == ConsecutivePairs(ps)
    IN  Collect([i \in 1..Len(pairs) |-> AreaReduction(pairs[i][1], pairs[i][2])])

\* variant: initial minus final, the sign convention of analysis.py
eccentricity_diffs_initial_minus_final(ps) ==
    LET pairs == ConsecutivePairs(ps)
    IN  Ok([i \in 1..Len(pairs) |->
              Pipe_eccentricity(pairs[i][1]) - Pipe_eccentricity(pairs[i][2])])

eccentricity_diffs(ps) ==
    LET pairs == ConsecutivePairs(ps)
    IN  Ok([i \in 1..Len(pairs) |->
              Pipe_eccentricity(pairs[i][2]) - Pipe_eccentricity(pairs[i][1])])

\* variant: the reduction taken relative to the final stage
ThicknessRow_final_denominator(t1, t2) ==
    [k \in 1..Len(t1) |-> NpDiv(t1[k] - t2[k], t2[k])]

\* (t1 - t2) / t1 on numpy arrays
ThicknessRow(t1, t2) == [k \in 1..Len(t1) |-> NpDiv(t1[k] - t2[k], t1[k])]

\* (initial.thickness - final.thickness) / initial.thickness, the two
\* thickness properties read left to right
ThicknessReduction(t1, t2) ==
    IF t1.outcome # "ok" THEN Raise(t1.outcome)
    ELSE IF t2.outcome # "ok" THEN Raise(t2.outcome)
    ELSE Ok(ThicknessRow(t1.value, t2.value))

thickness_reductions(ps) ==
    LET pairs == ConsecutivePairs(ps)
    IN  Collect([i \in 1..Len(pairs) |->
                    ThicknessReduction(Thickness(pairs[i][1]), Thickness(pairs[i][2]))])

----------------------------------------------------------------------------
(* analysis.py, main.py: ProcessPipeline, the earlier analysis entry point *)

\* ret.append(initial.eccentricity - final.eccentricity)
ProcessPipeline_eccentricity_diffs(shapes) ==
    LET pairs == ConsecutivePairs(shapes)
    IN  Ok([i \in 1..Len(pairs) |->
              Pipe_eccentricity(pairs[i][1]) - Pipe_eccentricity(pairs[i][2])])

----------------------------------------------------------------------------
(* api/domain.py, api/services/analysis_service.py *)

CirclePayload(o, d) == [shape_type |-> "Circle", origin |-> o, diameter |-> d]

RectPayload(o, l, w, r) ==
    [shape_type |-> "Rect", origin |-> o, length |-> l, width |-> w, fillet_radius |-> r]

SplinePayload(o, p1, p2, p3) ==
    [shape_type |-> "CubicSplineShape", origin |-> o, v1 |-> p1, v2 |-> p2, v3 |-> p3]

PipePayload(t, outer, inner) == [pipe_type |-> t, outer |-> outer, inner |-> inner]

shape_from_payload(payload) ==
    IF payload.shape_type = "Circle" THEN Circle(payload.origin, payload.diameter)
    ELSE IF payload.shape_type = "Rect"
    THEN Rect(payload.origin, payload.length, payload.width, payload.fillet_radius)
    ELSE CubicSplineShape(payload.origin, payload.v1, payload.v2, payload.v3)

pipe_from_payload(payload) ==
    LET outer == shape_from_payload(payload.outer)
        inner == shape_from_payload(payload.inner)
    IN  IF payload.pipe_type = "CircleCircle" THEN MkPipe("CircleCircle", outer, inner)
        ELSE IF payload.pipe_type = "RectRect" THEN MkPipe("RectRect", outer, inner)
        ELSE MkPipe("SplineSpline", outer, inner)

\* pipes = [domain.pipe_from_payload(payload) for payload in profile.pipes]
PipesOfProfile(prof) == [i \in 1..Len(prof) |-> pipe_from_payload(prof[i])]

\* AnalyzeResponse(area_reductions=..., eccentricity_diffs=...,
\* thickness_reductions=...): the arguments are evaluated in this order, and the
\* first exception ends the request
AnalyzeResponse(rs) ==
    IF Collect(rs).outcome # "ok" THEN Raise(Collect(rs).outcome)
    ELSE Ok([area_reductions |-> rs[1].value,
             eccentricity_diffs |-> rs[2].value,
             thickness_reductions |-> rs[3].value])

analyze_profile(prof) ==
    LET ps == PipesOfProfile(prof)
    IN  AnalyzeResponse(<<area_reductions(ps), eccentricity_diffs(ps),
                          thickness_reductions(ps)>>)

----------------------------------------------------------------------------
(* Inputs *)

PipeClasses ==
    {"Pipe", "CircleCircle", "CircleRect", "EllipseRect", "RectRect", "SplineSpline"}

\* every pipe the kernel's classes can be constructed with
AllPipes == {MkPipe(c, o, i) : c \in PipeClasses, o \in Shapes, i \in Shapes}

\* the stages the processes of the model are made of
StageCCa == MkPipe("CircleCircle", Circle(Pt(0, 0), F(8)), Circle(Pt(0, 0), F(4)))

StageCCb == MkPipe("CircleCircle", Circle(Pt(0, 1), F(6)), Circle(Pt(0, 0), F(4)))

\* outer and inner coincide: zero area, zero thickness
StageCCz == MkPipe("CircleCircle", Circle(Pt(0, 0), F(4)), Circle(Pt(0, 0), F(4)))

StageSSa ==
    MkPipe("SplineSpline",
           CubicSplineShape(Pt(0, 1), Pt(0, 8), Pt(6, 6), Pt(8, 0)),
           CubicSplineShape(Pt(0, 0), Pt(0, 5), Pt(4, 4), Pt(5, 0)))

StageSSb ==
    MkPipe("SplineSpline",
           CubicSplineShape(Pt(0, 0), Pt(0, 7), Pt(5, 5), Pt(7, 0)),
           CubicSplineShape(Pt(0, 0), Pt(0, 5), Pt(4, 4), Pt(5, 0)))


StageRRa ==
    MkPipe("RectRect", Rect(Pt(0, 0), F(8), F(6), F(1)), Rect(Pt(0, 0), F(4), F(4), F(1)))

\* the outer Rect is off centre in x
StageRRb ==
    MkPipe("RectRect", Rect(Pt(1, 0), F(8), F(6), F(3)), Rect(Pt(0, 0), F(4), F(4), F(1)))

\* outer and inner have the same length: zero thickness at Top and Bottom
StageRRt ==
    MkPipe("RectRect", Rect(Pt(0, 0), F(4), F(6), F(1)), Rect(Pt(0, 0), F(4), F(4), F(1)))

\* pipes of two shape variants, in the base class, in CircleRect and in CircleCircle
StagePcr == MkPipe("Pipe", Circle(Pt(0, 0), F(8)), Rect(Pt(0, 0), F(4), F(4), F(1)))

StageCR == MkPipe("CircleRect", Circle(Pt(0, 0), F(8)), Rect(Pt(0, 0), F(4), F(4), F(1)))

StageCCr ==
    MkPipe("CircleCircle", Circle(Pt(0, 0), F(8)), Rect(Pt(0, 0), F(4), F(4), F(1)))

Stages ==
    {StageCCa, StageCCb, StageCCz, StageSSa, StageSSb, StageRRa, StageRRb, StageRRt,
     StagePcr, StageCR, StageCCr}

SeqsUpTo(S, n) == UNION {[1..k -> S] : k \in 0..n}

Processes == SeqsUpTo(Stages, MaxPipes)

\* payloads the request schemas accept
PayloadCC ==
    PipePayload("CircleCircle", CirclePayload(Pt(0, 0), F(8)), CirclePayload(Pt(0, 0), F(4)))

PayloadCCz ==
    PipePayload("CircleCircle", CirclePayload(Pt(0, 0), F(4)), CirclePayload(Pt(0, 0), F(4)))

PayloadRR ==
    PipePayload("RectRect", RectPayload(Pt(0, 1), F(8), F(6), F(1)),
                RectPayload(Pt(0, 0), F(4), F(4), F(1)))

PayloadRRt ==
    PipePayload("RectRect", RectPayload(Pt(0, 0), F(4), F(6), F(1)),
                RectPayload(Pt(0, 0), F(4), F(4), F(1)))

PayloadSS ==
    PipePayload("SplineSpline",
                SplinePayload(Pt(0, 1), Pt(0, 8), Pt(6, 6), Pt(8, 0)),
                SplinePayload(Pt(0, 0), Pt(0, 5), Pt(4, 4), Pt(5, 0)))

\* pipe_type and the shapes' shape_type are validated independently
PayloadCCr ==
    PipePayload("CircleCircle", CirclePayload(Pt(0, 0), F(8)),
                RectPayload(Pt(0, 0), F(4), F(4), F(1)))

PipePayloads == {PayloadCC, PayloadCCz, PayloadRR, PayloadRRt, PayloadSS, PayloadCCr}

Profiles == SeqsUpTo(PipePayloads, MaxPipes)

----------------------------------------------------------------------------
(* The analysis entry points as a state machine *)

NoResponse == [op |-> "none", outcome |-> "none", value |-> <<>>]

NoShape == [kind |-> "none"]

\* the templates data directory does not exist
NoDir == [is_dir |-> FALSE]

\* the cache holds no entry
NoEntry == [cached |-> FALSE]

\* load_template_payloads was never called
EmptyCache == [entry |-> NoEntry, hits |-> 0, misses |-> 0]

\* no dashboard session exists
DashIdle ==
    /\ heap = <<>>
    /\ editable_pipes = "unset"
    /\ transition_edit_seq = <<>>
    /\ transition_last_change_at = <<>>
    /\ transition_applied_seq = <<>>
    /\ pending_pipe_updates = <<>>
    /\ now = 0
    /\ debounce_seconds = 0
    /\ widget_identity = "none"

\* nothing of the template repository is in use
CacheIdle ==
    /\ data_dir = NoDir
    /\ lru_cache = EmptyCache
    /\ loading = {}

Response(op, r) == [op |-> op, outcome |-> r.outcome, value |-> r.value]

\* a ProcessAnalysis constructed by a caller of the kernel, or the API idle
Init ==
    /\ profile = <<>>
    /\ response = NoResponse
    /\ shape = NoShape
    /\ CacheIdle
    /\ DashIdle
    /\ \/ caller = "kernel" /\ pipes \in Processes
       \/ caller = "api" /\ pipes = <<>>

ReadAreaReductions ==
    /\ caller = "kernel"
    /\ response' = Response("area_reductions", area_reductions(pipes))
    /\ UNCHANGED <<caller, profile, pipes, shapeVars, cacheVars, dashVars>>

ReadEccentricityDiffs ==
    /\ caller = "kernel"
    /\ response' = Response("eccentricity_diffs", eccentricity_diffs(pipes))
    /\ UNCHANGED <<caller, profile, pipes, shapeVars, cacheVars, dashVars>>

ReadThicknessReductions ==
    /\ caller = "kernel"
    /\ response' = Response("thickness_reductions", thickness_reductions(pipes))
    /\ UNCHANGED <<caller, profile, pipes, shapeVars, cacheVars, dashVars>>

\* ProcessPipeline(*pipes).eccentricity_diffs
ReadPipelineEccentricityDiffs ==
    /\ caller = "kernel"
    /\ response' = Response("pipeline_eccentricity_diffs",
                            ProcessPipeline_eccentricity_diffs(pipes))
    /\ UNCHANGED <<caller, profile, pipes, shapeVars, cacheVars, dashVars>>

\* POST /api/analyze
AnalyzeProfile ==
    /\ caller = "api"
    /\ response = NoResponse
    /\ \E prof \in Profiles :
          /\ profile' = prof
          /\ pipes' = PipesOfProfile(prof)
          /\ response' = Response("analyze_profile", analyze_profile(prof))
    /\ UNCHANGED <<caller, shapeVars, cacheVars, dashVars>>

Next ==
    \/ ReadAreaReductions
    \/ ReadEccentricityDiffs
    \/ ReadThicknessReductions
    \/ ReadPipelineEccentricityDiffs
    \/ AnalyzeProfile

Spec == Init /\ [][Next]_vars

\* one pipe, whose derived properties are read
InitPipe ==
    /\ caller = "kernel"
    /\ profile = <<>>
    /\ response = NoResponse
    /\ shape = NoShape
    /\ CacheIdle
    /\ DashIdle
    /\ \E p \in AllPipes : pipes = <<p>>

ReadArea ==
    /\ Len(pipes) = 1
    /\ response' = Response("area", Ok(Pipe_area(pipes[1])))
    /\ UNCHANGED <<caller, profile, pipes, shapeVars, cacheVars, dashVars>>

ReadEccentricity ==
    /\ Len(pipes) = 1
    /\ response' = Response("eccentricity", Ok(Pipe_eccentricity(pipes[1])))
    /\ UNCHANGED <<caller, profile, pipes, shapeVars, cacheVars, dashVars>>

ReadThickness ==
    /\ Len(pipes) = 1
    /\ response' = Response("thickness", Thickness(pipes[1]))
    /\ UNCHANGED <<caller, profile, pipes, shapeVars, cacheVars, dashVars>>

\* get_rect_points(pipe.outer), pipe.outer a Rect
GetRectPoints ==
    /\ Len(pipes) = 1
    /\ pipes[1].outer.kind = "Rect"
    /\ response' = Response("get_rect_points", Ok(get_rect_points(pipes[1].outer)))
    /\ UNCHANGED <<caller, profile, pipes, shapeVars, cacheVars, dashVars>>

\* get_vertices(pipe.outer), pipe.outer a Rect
GetVertices ==
    /\ Len(pipes) = 1
    /\ pipes[1].outer.kind = "Rect"
    /\ response' = Response("get_vertices", Ok(Rect_vertices(pipes[1].outer)))
    /\ UNCHANGED <<caller, profile, pipes, shapeVars, cacheVars, dashVars>>

NextPipe ==
    \/ ReadArea
    \/ ReadEccentricity
    \/ ReadThickness
    \/ GetRectPoints
    \/ GetVertices

SpecPipe == InitPipe /\ [][NextPipe]_vars

----------------------------------------------------------------------------
(* Shapes constructed on their own: by a caller of the kernel, or from a     *)
(* shape payload of an API request                                           *)

\* the field values a caller may pass or a request body may carry
RawCirclePayloads == {CirclePayload(o, F(d)) : o \in Origins, d \in {-4, 0, 4}}

RawRectPayloads ==
    {RectPayload(o, F(lw[1]), F(lw[2]), F(r)) :
        o \in Origins, lw \in {<<4, 4>>, <<1, 1>>, <<-4, 4>>, <<4, 0>>}, r \in {0, 1, 2}}

RawSplinePayloads ==
    {SplinePayload(o, v1, v2, v3) :
        o \in Origins, v1 \in {Pt(0, 8), Pt(1, 8)}, v2 \in {Pt(6, 6), Pt(6, 5)},
        v3 \in {Pt(8, 0), Pt(8, 1)}}

RawShapePayloads == RawCirclePayloads \cup RawRectPayloads \cup RawSplinePayloads

\* the Field(gt=0) constraints of CirclePayload and RectPayload; SplinePayload
\* has none
ValidShapePayload(raw) ==
    CASE raw.shape_type = "Circle" -> raw.diameter > 0
      [] raw.shape_type = "Rect" ->
            raw.length > 0 /\ raw.width > 0 /\ raw.fillet_radius > 0
      [] OTHER -> TRUE

\* a caller of the kernel, or a request whose shape payloads are validated
InitShape ==
    /\ caller \in {"kernel", "api"}
    /\ profile = <<>>
    /\ pipes = <<>>
    /\ response = NoResponse
    /\ shape = NoShape
    /\ CacheIdle
    /\ DashIdle

\* Circle(...), Rect(...), CubicSplineShape(...): the models declare field
\* types only, every float is accepted
ConstructShape ==
    /\ caller = "kernel"
    /\ \E raw \in RawShapePayloads :
          /\ shape' = shape_from_payload(raw)
          /\ response' = Response("construct", Ok(shape_from_payload(raw)))
    /\ UNCHANGED <<caller, profile, pipes, cacheVars, dashVars>>

\* a shape payload is validated, then domain.shape_from_payload builds the shape
ShapeFromPayload ==
    /\ caller = "api"
    /\ \E raw \in RawShapePayloads :
          IF ValidShapePayload(raw)
          THEN /\ shape' = shape_from_payload(raw)
               /\ response' = Response("shape_from_payload", Ok(shape_from_payload(raw)))
          ELSE /\ shape' = shape
               /\ response' = Response("shape_from_payload", Raise("ValidationError"))
    /\ UNCHANGED <<caller, profile, pipes, cacheVars, dashVars>>

\* shape.area
ReadShapeArea ==
    /\ shape # NoShape
    /\ response' = Response("shape_area", Ok(AreaProperty(shape)))
    /\ UNCHANGED <<caller, profile, pipes, shape, cacheVars, dashVars>>

\* shape.vertices of a CubicSplineShape
ReadShapeVertices ==
    /\ shape # NoShape
    /\ shape.kind = "CubicSplineShape"
    /\ response' = Response("shape_vertices", Ok(CubicSplineShape_vertices(shape)))
    /\ UNCHANGED <<caller, profile, pipes, shape, cacheVars, dashVars>>

NextShape ==
    \/ ConstructShape
    \/ ShapeFromPayload
    \/ ReadShapeArea
    \/ ReadShapeVertices

SpecShape == InitShape /\ [][NextShape]_vars

----------------------------------------------------------------------------
(* api/template_repository.py: the template files and their cached catalog *)

\* Strings are sequences of one-character strings.
JsonSuffix == <<".", "j", "s", "o", "n">>

\* the entries the data directory may hold, in the order of sorted(entry.name)
FileNames == << <<"a">> \o JsonSuffix, <<"b">> \o JsonSuffix, <<"a", ".", "t", "x", "t">> >>

\* a template file that parses and validates: TemplateFilePayload
TemplateFilePayload(name, ps) == [text |-> "template", name |-> name, pipes |-> ps]

\* a file whose text json.loads rejects
InvalidJson == [text |-> "invalid_json"]

\* a file whose JSON TemplateFilePayload.model_validate rejects
InvalidSchema == [text |-> "invalid_schema"]

\* name: str | None = None
None == <<"None">>

\* what a file may contain: text that is no JSON, JSON that is no
\* TemplateFilePayload, or a template
FileContents ==
    {InvalidJson, InvalidSchema,
     TemplateFilePayload(None, <<PayloadCC>>),
     TemplateFilePayload(<<" ">>, <<PayloadRR>>),
     TemplateFilePayload(<<"A">>, <<PayloadCC, PayloadRR>>),
     TemplateFilePayload(<<" ", "B", " ">>, <<PayloadSS>>)}

\* the states of the data directory: any of the entries present, the .json
\* entries with any content (the content of the .txt entry is never read)
Dirs ==
    {NoDir} \cup
    {[is_dir |-> TRUE, files |-> fs] :
        fs \in UNION {{g \in [S -> FileContents] :
                            \A f \in S : f[Len(f)] = "t" => g[f] = InvalidJson} :
                         S \in SUBSET {FileNames[k] : k \in 1..Len(FileNames)}}}

\* one change of the file system: the directory is created or removed, or one
\* entry is written or deleted
OneChange(d1, d2) ==
    /\ d1 # d2
    /\ IF d1.is_dir /\ d2.is_dir
       THEN \E f \in DOMAIN d1.files \cup DOMAIN d2.files :
               \A g \in (DOMAIN d1.files \cup DOMAIN d2.files) \ {f} :
                  /\ g \in DOMAIN d1.files
                  /\ g \in DOMAIN d2.files
                  /\ d1.files[g] = d2.files[g]
       ELSE \A d \in {d1, d2} : d.is_dir => DOMAIN d.files = {}

\* str.strip(): leading and trailing blanks removed
RECURSIVE StripLeft(_)
StripLeft(str) ==
    IF str # <<>> /\ Head(str) = " " THEN StripLeft(Tail(str)) ELSE str

RECURSIVE StripRight(_)
StripRight(str) ==
    IF str # <<>> /\ str[Len(str)] = " "
    THEN StripRight(SubSeq(str, 1, Len(str) - 1))
    ELSE str

Strip(str) == StripRight(StripLeft(str))

\* str.upper() on the letters of the file names
Upper(str) ==
    [k \in 1..Len(str) |->
        CASE str[k] = "a" -> "A" [] str[k] = "b" -> "B" [] str[k] = "t" -> "T"
          [] str[k] = "x" -> "X" [] OTHER -> str[k]]

\* str.endswith(suffix)
EndsWith(str, suffix) ==
    /\ Len(str) >= Len(suffix)
    /\ SubSeq(str, Len(str) - Len(suffix) + 1, Len(str)) = suffix

\* filename.rsplit(".", 1)[0]: the text before the last dot (all of it when
\* there is no dot)
RsplitHead(filename) ==
    LET dots == {k \in 1..Len(filename) : filename[k] = "."}
    IN  IF dots = {} THEN filename
        ELSE SubSeq(filename, 1, (CHOOSE k \in dots : \A j \in dots : j <= k) - 1)

\* _template_files: the .json files of the data directory, sorted by name
template_files(dir) ==
    IF ~dir.is_dir THEN <<>>
    ELSE SelectSeq(FileNames,
                   LAMBDA f : f \in DOMAIN dir.files /\ EndsWith(f, JsonSuffix))

\* _normalized_template_name
normalized_template_name(template, filename) ==
    IF template.name # None /\ template.name # <<>> /\ Strip(template.name) # <<>>
    THEN Strip(template.name)
    ELSE Upper(RsplitHead(filename))

\* the body of load_template_payloads over the entries from position k on,
\* templates being the dict built so far (a set of name/pipes pairs)
RECURSIVE LoadEntries(_, _, _, _)
LoadEntries(dir, entries, k, templates) ==
    IF k > Len(entries) THEN Ok(templates)
    ELSE LET entry == entries[k]
             raw == dir.files[entry]
         IN  IF raw = InvalidJson THEN Raise("ValueError")
             ELSE IF raw = InvalidSchema THEN Raise("ValueError")
             ELSE LET template_name == normalized_template_name(raw, entry)
                  IN  IF \E t \in templates : t[1] = template_name
                      THEN Raise("ValueError")
                      ELSE LoadEntries(dir, entries, k + 1,
                                       templates \cup {<<template_name, raw.pipes>>})

\* the undecorated load_template_payloads
load_template_payloads(dir) == LoadEntries(dir, template_files(dir), 1, {})

\* the worker threads that may call load_template_payloads
Callers == {"w1", "w2"}

\* variant: a wrapper that never finds its entry
CacheLookup_always_miss(c) == FALSE

\* lru_cache: is the result of the (argument-less) call in the cache?
CacheLookup(c) == c.entry.cached

InitCache ==
    /\ caller = "api"
    /\ profile = <<>>
    /\ pipes = <<>>
    /\ response = NoResponse
    /\ shape = NoShape
    /\ data_dir \in Dirs
    /\ lru_cache = EmptyCache
    /\ loading = {}
    /\ DashIdle

\* load_template_payloads() is called: the wrapper looks the entry up; a hit
\* returns it, a miss enters the function body
CallLoadTemplatePayloads(w) ==
    /\ w \notin loading
    /\ lru_cache.hits + lru_cache.misses < MaxCalls
    /\ IF CacheLookup(lru_cache)
       THEN /\ lru_cache' = [lru_cache EXCEPT !.hits = @ + 1]
            /\ response' = Response("load_template_payloads", Ok(lru_cache.entry.value))
            /\ UNCHANGED loading
       ELSE /\ lru_cache' = [lru_cache EXCEPT !.misses = @ + 1]
            /\ loading' = loading \cup {w}
            /\ UNCHANGED response
    /\ UNCHANGED <<caller, profile, pipes, shapeVars, data_dir, dashVars>>

\* the function body runs: it reads and validates the files; a result is
\* stored unless the entry was added meanwhile, an exception stores nothing
RunLoadTemplatePayloads(w) ==
    /\ w \in loading
    /\ LET result == load_template_payloads(data_dir)
       IN  /\ response' = Response("load_template_payloads", result)
           /\ lru_cache' =
                 IF result.outcome = "ok" /\ ~CacheLookup(lru_cache)
                 THEN [lru_cache EXCEPT !.entry = [cached |-> TRUE, value |-> result.value]]
                 ELSE lru_cache
    /\ loading' = loading \ {w}
    /\ UNCHANGED <<caller, profile, pipes, shapeVars, data_dir, dashVars>>

\* the environment adds, removes or rewrites template files
ChangeFiles ==
    /\ \E dir \in Dirs : OneChange(data_dir, dir) /\ data_dir' = dir
    /\ UNCHANGED <<caller, profile, pipes, response, shapeVars, lru_cache, loading, dashVars>>

NextCache ==
    \/ \E w \in Callers : CallLoadTemplatePayloads(w)
    \/ \E w \in Callers : RunLoadTemplatePayloads(w)
    \/ ChangeFiles

SpecCache == InitCache /\ [][NextCache]_vars

----------------------------------------------------------------------------
(* streamlit_app.py: the dashboard session.  Python lists are objects of the *)
(* heap, named by identity; dicts are functions; list positions are 0-based. *)

DictGet(d, k, default) == IF k \in DOMAIN d THEN d[k] ELSE default

DictSet(d, k, v) == [x \in DOMAIN d \cup {k} |-> IF x = k THEN v ELSE d[x]]

\* variant: the new item goes in one place later
ListInsert_after(l, i, x) ==
    SubSeq(l, 1, i + 1) \o <<x>> \o SubSeq(l, i + 2, Len(l))

\* list.insert(i, x), 0 <= i <= len
ListInsert(l, i, x) == SubSeq(l, 1, i) \o <<x>> \o SubSeq(l, i + 1, Len(l))

\* list.pop(i), 0 <= i < len
ListPop(l, i) == SubSeq(l, 1, i) \o SubSeq(l, i + 2, Len(l))

\* l[i] = x, 0 <= i < len
ListSetItem(l, i, x) == [l EXCEPT ![i + 1] = x]

\* fixtures.py: PROCESS is a list of pipes, FINISH a single pipe
FIXTURE_PROCESS == <<StageCCa, StageSSa, StageRRa>>

FIXTURE_FINISH == StageRRb

\* the module attributes that are templates, as sorted(vars(fixtures).items())
TemplateNames == <<"FINISH", "PROCESS">>

\* the heap when the fixtures module has been imported
FixturesHeap == [id \in {"fixtures.PROCESS"} |-> FIXTURE_PROCESS]

\* variant: no new list, the argument itself is handed back
list_alias(h, src) == [id |-> src.from, heap |-> h]

\* list(src): a new list object with the items of src; its identity is the
\* one the caller binds it to (dst)
list_copy(h, src, dst) ==
    [id |-> dst, heap |-> [x \in DOMAIN h \cup {dst} |-> IF x = dst THEN h[src] ELSE h[x]]]

\* list(src), bound to the name dst
list(h, src) == list_copy(h, src.from, src.to)

\* [value]: a new one-element list
ListLiteral(h, items, dst) ==
    [id |-> dst, heap |-> [x \in DOMAIN h \cup {dst} |-> IF x = dst THEN items ELSE h[x]]]

\* _load_template_options: the dict name -> list object, and the heap after
\* the lists were built
load_template_options(h) ==
    LET finish == ListLiteral(h, <<FIXTURE_FINISH>>, "options.FINISH")
        process == list(finish.heap,
                        [from |-> "fixtures.PROCESS", to |-> "options.PROCESS"])
    IN  [templates |-> [name \in {"FINISH", "PROCESS"} |->
                           IF name = "FINISH" THEN finish.id ELSE process.id],
         heap |-> process.heap]

\* _default_template_name
default_template_name(template_options) ==
    IF "PROCESS" \in DOMAIN template_options THEN "PROCESS" ELSE TemplateNames[1]

\* the objects still referenced when a script run has ended: the fixtures and
\* the session's list
Collected(h, session_list) ==
    [x \in {"fixtures.PROCESS", session_list} |-> h[x]]

\* st.session_state["editable_pipes"] = list(template_options[name])
AssignEditablePipes(h, name) ==
    LET options == load_template_options(h)
        new == list(options.heap, [from |-> options.templates[name], to |-> "session"])
    IN  [id |-> new.id, heap |-> Collected(new.heap, new.id)]

\* the pipes a user can type into the inputs of a pipe of the same class
InputValues == {StageCCa, StageCCz, StageRRa, StageRRb, StageSSa, StageSSb}

\* variant: the inputs build a pipe of any class
SameClassValues_any_class(pipe) == InputValues

\* the editor branches on isinstance(pipe, ...) and returns a pipe of that class
SameClassValues(pipe) == {p \in InputValues : p.class = pipe.class}

\* ProcessAnalysis(editable_pipes) at the top of _render_transition_rows raises
AnalysisRaises(ep) ==
    \/ area_reductions(ep).outcome # "ok"
    \/ thickness_reductions(ep).outcome # "ok"

\* the same, tabulated over the lists the session can hold
AnalysisRaisesTable ==
    [ep \in SeqsUpTo(InputValues, MaxRows) |-> AnalysisRaises(ep)] @@ <<>>

RenderFails(ep) == Len(ep) >= 2 /\ AnalysisRaisesTable[ep]

\* the transition rows, with their live inputs, are on the page
RowsRendered(ep) == Len(ep) >= 2 /\ ~RenderFails(ep)

\* main reaches the call of _debounce_poller
PollerRuns(ep) == Len(ep) >= 1 /\ ~RenderFails(ep)

\* The value an input group shows when it is rendered with the default
\* new_default: a group that was not on the page shows the default; one that
\* was keeps the value it held as long as the framework takes it for the same
\* widget: by its parameters (the default among them), or by its key alone.
WidgetValue(identity, known, held, old_default, new_default) ==
    IF ~known THEN new_default
    ELSE IF identity = "parameters"
    THEN (IF old_default = new_default THEN held ELSE new_default)
    ELSE (IF held.class = new_default.class THEN held ELSE new_default)

\* pending_updates as _render_transition_rows builds it over the list ep_new;
\* held are the values of the input groups of the previous run, which was
\* rendered over ep_old
render_transition_rows(identity, ep_old, held, ep_new) ==
    [idx \in 0..(Len(ep_new) - 2) |->
        LET known == idx \in DOMAIN held /\ idx + 2 <= Len(ep_old)
            value(side) ==
                WidgetValue(identity, known,
                            IF known THEN held[idx][side] ELSE ep_new[idx + side],
                            IF known THEN ep_old[idx + side] ELSE ep_new[idx + side],
                            ep_new[idx + side])
        IN  <<value(1), value(2)>>]

\* st.session_state["pending_pipe_updates"] when a run of the script ends:
\* what _render_transition_rows stored, or what the handler left when the
\* rows were not rendered to their end
PendingAfterRun(identity, ep_old, held, ep_new, left_by_handler) ==
    IF RowsRendered(ep_new)
    THEN render_transition_rows(identity, ep_old, held, ep_new)
    ELSE left_by_handler

\* the slider "Edit debounce (seconds)", in poll periods of 0.5 s: from 0.5 s
\* to 2.0 s, 1.0 s when untouched; the model offers 0.5 s and 1.0 s
DebounceChoices == {1, 2}

DefaultDebounce == 2

\* the pipes the "Add or Insert Pipe" form is submitted with
FormValues == {StageCCz}

\* the items of the session's list
EditablePipes == heap[editable_pipes]

\* variant: the wait has to be exceeded
DebounceElapsed_strict(changed_at, t, wait) == t - changed_at > wait

\* variant: the wait is never checked
DebounceElapsed_always(changed_at, t, wait) == TRUE

\* elapsed = time.monotonic() - changed_at; not (elapsed < debounce_seconds)
DebounceElapsed(changed_at, t, wait) == ~(t - changed_at < wait)

\* variant: any transition that was ever edited counts as dirty
IsDirty_ever_edited(edit_seq, applied_seq, last_change_at, idx) ==
    idx \in DOMAIN last_change_at

\* current_seq > current_applied_seq and isinstance(changed_at, float)
IsDirty(edit_seq, applied_seq, last_change_at, idx) ==
    /\ DictGet(edit_seq, idx, 0) > DictGet(applied_seq, idx, 0)
    /\ idx \in DOMAIN last_change_at

\* one iteration of the poller's loop over pending_updates.items(); st holds
\* the list, applied_seq, any_applied and the exception raised so far
PollIteration(st, idx) ==
    IF st.error # "none" THEN st
    ELSE IF ~IsDirty(transition_edit_seq, st.applied_seq, transition_last_change_at, idx)
    THEN st
    ELSE IF ~DebounceElapsed(transition_last_change_at[idx], now, debounce_seconds)
    THEN st
    ELSE IF idx >= Len(st.items)
    THEN [st EXCEPT !.error = "IndexError"]
    ELSE IF idx + 1 >= Len(st.items)
    THEN [st EXCEPT !.items = ListSetItem(st.items, idx, pending_pipe_updates[idx][1]),
                    !.error = "IndexError"]
    ELSE [st EXCEPT
            !.items = ListSetItem(ListSetItem(st.items, idx, pending_pipe_updates[idx][1]),
                                  idx + 1, pending_pipe_updates[idx][2]),
            !.applied_seq = DictSet(st.applied_seq, idx, transition_edit_seq[idx]),
            !.applied = @ \cup {idx}]

RECURSIVE PollLoop(_, _, _)
\* the loop, over the keys idx..last in insertion order (ascending)
PollLoop(st, idx, last) ==
    IF idx > last THEN st ELSE PollLoop(PollIteration(st, idx), idx + 1, last)

\* the first run of the script in a new session, but for the slider
InitSession ==
    /\ caller = "dashboard"
    /\ profile = <<>>
    /\ pipes = <<>>
    /\ response = NoResponse
    /\ shape = NoShape
    /\ CacheIdle
    /\ widget_identity \in {"parameters", "key"}
    /\ LET options == load_template_options(FixturesHeap)
           new == AssignEditablePipes(FixturesHeap, default_template_name(options.templates))
       IN  /\ editable_pipes = new.id
           /\ heap = new.heap
           /\ pending_pipe_updates =
                 PendingAfterRun(widget_identity, <<>>, <<>>, new.heap[new.id], <<>>)
    /\ transition_edit_seq = <<>>
    /\ transition_last_change_at = <<>>
    /\ transition_applied_seq = <<>>
    /\ now = 0

\* the first run of the script in a new session
InitDash == InitSession /\ debounce_seconds = DefaultDebounce

\* time.monotonic() advances by one poll period
Tick ==
    /\ now < MaxTime
    /\ now' = now + 1
    /\ response' = NoResponse
    /\ UNCHANGED <<caller, profile, pipes, shapeVars, cacheVars, heap, editable_pipes,
                   debounceVars, debounce_seconds, widget_identity>>

\* the user changes an input of a transition row: on_change runs
\* _mark_transition_dirty, then the fragment _render_transition_rows reruns
EditTransition(idx, side, value) ==
    /\ idx \in DOMAIN pending_pipe_updates
    /\ RowsRendered(EditablePipes)
    /\ value \in SameClassValues(pending_pipe_updates[idx][side])
    /\ value # pending_pipe_updates[idx][side]
    /\ DictGet(transition_edit_seq, idx, 0) < MaxEdits
    /\ transition_edit_seq' =
          DictSet(transition_edit_seq, idx, DictGet(transition_edit_seq, idx, 0) + 1)
    /\ transition_last_change_at' = DictSet(transition_last_change_at, idx, now)
    /\ pending_pipe_updates' =
          PendingAfterRun(widget_identity, EditablePipes,
                          [pending_pipe_updates EXCEPT ![idx][side] = value],
                          EditablePipes, pending_pipe_updates)
    /\ response' = NoResponse
    /\ UNCHANGED <<caller, profile, pipes, shapeVars, cacheVars, heap, editable_pipes,
                   transition_applied_seq, now, debounce_seconds, widget_identity>>

\* variant: the rerun is requested whether or not anything was applied
RerunRequested_always(any_applied) == TRUE

\* if any_applied: ... st.rerun(scope="app")
RerunRequested(any_applied) == any_applied

\* _debounce_poller runs (every 0.5 s): with no pending updates it returns;
\* else the loop, then with any_applied the pending updates are dropped and
\* the app reruns.  The response records what the poll applied and how many
\* reruns it requested.
Poll ==
    /\ PollerRuns(EditablePipes)
    /\ LET st == PollLoop([items |-> EditablePipes,
                           applied_seq |-> transition_applied_seq,
                           applied |-> {}, error |-> "none"],
                          0, Cardinality(DOMAIN pending_pipe_updates) - 1)
           rerun == /\ pending_pipe_updates # <<>>
                    /\ st.error = "none"
                    /\ RerunRequested(st.applied # {})
       IN  /\ heap' = [heap EXCEPT ![editable_pipes] = st.items]
           /\ transition_applied_seq' = st.applied_seq
           /\ pending_pipe_updates' =
                 IF rerun
                 THEN PendingAfterRun(widget_identity, EditablePipes,
                                      pending_pipe_updates, st.items, <<>>)
                 ELSE pending_pipe_updates
           /\ response' =
                 Response("poll",
                          IF st.error = "none"
                          THEN Ok([applied |-> st.applied,
                                   reruns |-> IF rerun THEN 1 ELSE 0])
                          ELSE Raise(st.error))
    /\ UNCHANGED <<caller, profile, pipes, shapeVars, cacheVars, editable_pipes,
                   transition_edit_seq, transition_last_change_at, now,
                   debounce_seconds, widget_identity>>

\* variant: transition_applied_seq is not among the dicts that are reset
ResetAndRerun_applied_kept(ep_new) ==
    /\ transition_edit_seq' = <<>>
    /\ transition_last_change_at' = <<>>
    /\ UNCHANGED transition_applied_seq
    /\ pending_pipe_updates' =
          PendingAfterRun(widget_identity, EditablePipes, pending_pipe_updates,
                          ep_new, <<>>)

\* variant: the pending updates are neither cleared nor rendered again
ResetAndRerun_pending_kept(ep_new) ==
    /\ transition_edit_seq' = <<>>
    /\ transition_last_change_at' = <<>>
    /\ transition_applied_seq' = <<>>
    /\ UNCHANGED pending_pipe_updates

\* what _reset_debounce_state and the rerun after it leave: the three dicts
\* empty, the pending updates as the rerun renders them over ep_new
ResetAndRerun(ep_new) ==
    /\ transition_edit_seq' = <<>>
    /\ transition_last_change_at' = <<>>
    /\ transition_applied_seq' = <<>>
    /\ pending_pipe_updates' =
          PendingAfterRun(widget_identity, EditablePipes, pending_pipe_updates,
                          ep_new, <<>>)

\* the form "Add or Insert Pipe" is submitted: insert before pipe number n
\* (1..len), or append (n = 0); then _reset_debounce_state and st.rerun
AddPipe(n, new_pipe) ==
    /\ Len(EditablePipes) < MaxRows
    /\ n \in 0..Len(EditablePipes)
    /\ LET items == IF n > 0 THEN ListInsert(EditablePipes, n - 1, new_pipe)
                    ELSE Append(EditablePipes, new_pipe)
       IN  /\ heap' = [heap EXCEPT ![editable_pipes] = items]
           /\ ResetAndRerun(items)
    /\ response' = NoResponse
    /\ UNCHANGED <<caller, profile, pipes, shapeVars, cacheVars, editable_pipes, now,
                   debounce_seconds, widget_identity>>

\* a button "Delete Pipe k" is pressed, in the single-pipe editor or in a
\* transition row: pop, _reset_debounce_state, st.rerun
DeletePipe(slot) ==
    /\ slot \in 0..(Len(EditablePipes) - 1)
    /\ Len(EditablePipes) = 1 \/ RowsRendered(EditablePipes)
    /\ LET items == ListPop(EditablePipes, slot)
       IN  /\ heap' = [heap EXCEPT ![editable_pipes] = items]
           /\ ResetAndRerun(items)
    /\ response' = NoResponse
    /\ UNCHANGED <<caller, profile, pipes, shapeVars, cacheVars, editable_pipes, now,
                   debounce_seconds, widget_identity>>

\* "Save changes" in the editor of a process of one pipe: the slot is
\* replaced and the app reruns; the debounce state is not reset
SaveSinglePipe(updated_pipe) ==
    /\ Len(EditablePipes) = 1
    /\ updated_pipe \in SameClassValues(EditablePipes[1])
    /\ LET items == ListSetItem(EditablePipes, 0, updated_pipe)
       IN  /\ heap' = [heap EXCEPT ![editable_pipes] = items]
           /\ pending_pipe_updates' =
                 PendingAfterRun(widget_identity, EditablePipes, pending_pipe_updates,
                                 items, pending_pipe_updates)
    /\ response' = NoResponse
    /\ UNCHANGED <<caller, profile, pipes, shapeVars, cacheVars, editable_pipes,
                   transition_edit_seq, transition_last_change_at,
                   transition_applied_seq, now, debounce_seconds, widget_identity>>

\* "Load template": editable_pipes = list(template_options[selected_name]),
\* _reset_debounce_state, st.rerun
LoadTemplate(selected_name) ==
    /\ LET new == AssignEditablePipes(heap, selected_name)
       IN  /\ editable_pipes' = new.id
           /\ heap' = new.heap
           /\ ResetAndRerun(new.heap[new.id])
    /\ response' = NoResponse
    /\ UNCHANGED <<caller, profile, pipes, shapeVars, cacheVars, now, debounce_seconds,
                   widget_identity>>

\* the debounce slider is moved: the app reruns with the new value
SetDebounce(seconds) ==
    /\ seconds # debounce_seconds
    /\ debounce_seconds' = seconds
    /\ pending_pipe_updates' =
          PendingAfterRun(widget_identity, EditablePipes, pending_pipe_updates,
                          EditablePipes, pending_pipe_updates)
    /\ response' = NoResponse
    /\ UNCHANGED <<caller, profile, pipes, shapeVars, cacheVars, heap,
                   editable_pipes, transition_edit_seq, transition_last_change_at,
                   transition_applied_seq, now, widget_identity>>

NextDash ==
    \/ Tick
    \/ \E idx \in 0..(MaxRows - 2), side \in {1, 2}, value \in InputValues :
          EditTransition(idx, side, value)
    \/ Poll
    \/ \E n \in 0..MaxRows, new_pipe \in FormValues : AddPipe(n, new_pipe)
    \/ \E slot \in 0..(MaxRows - 1) : DeletePipe(slot)
    \/ \E updated_pipe \in InputValues : SaveSinglePipe(updated_pipe)
    \/ \E selected_name \in {"FINISH", "PROCESS"} : LoadTemplate(selected_name)
    \/ \E seconds \in DebounceChoices : SetDebounce(seconds)

SpecDash == InitDash /\ [][NextDash]_vars

\* A session in which the slider was set before the first edit and then left
\* alone, and in which no pipe is added or deleted and no template loaded:
\* the user edits transition inputs, time passes, and the poller, a fragment
\* with run_every=0.5, runs again and again while it is on the page.
InitDashQuiet == InitSession /\ debounce_seconds \in DebounceChoices

NextDashQuiet ==
    \/ Tick
    \/ \E idx \in 0..(MaxRows - 2), side \in {1, 2}, value \in InputValues :
          EditTransition(idx, side, value)
    \/ Poll

SpecDashQuiet ==
    InitDashQuiet /\ [][NextDashQuiet]_vars /\ WF_vars(Tick) /\ WF_vars(Poll)

----------------------------------------------------------------------------
(* Properties of ProcessAnalysis (checked under Spec) *)

SeriesOps == {"area_reductions", "eccentricity_diffs", "thickness_reductions"}

Returned(op) == response.op = op /\ response.outcome = "ok"

ExpectedLen(n) == IF n > 1 THEN n - 1 ELSE 0

\* C1: every series that is returned for N pipes has max(0, N - 1) elements,
\* from the kernel and from the API alike; for N = 0 and N = 1 every series is
\* returned (no error is raised) and is empty.
C1_SeriesLengths ==
    /\ (response.op \in SeriesOps /\ response.outcome = "ok")
          => Len(response.value) = ExpectedLen(Len(pipes))
    /\ Returned("analyze_profile")
          => /\ Len(response.value.area_reductions) = ExpectedLen(Len(profile))
             /\ Len(response.value.eccentricity_diffs) = ExpectedLen(Len(profile))
             /\ Len(response.value.thickness_reductions) = ExpectedLen(Len(profile))
    /\ (response.op # "none" /\ Len(pipes) < 2)
          => /\ response.outcome = "ok"
             /\ response.op \in SeriesOps => response.value = <<>>
             /\ response.op = "analyze_profile"
                   => response.value = [area_reductions |-> <<>>,
                                        eccentricity_diffs |-> <<>>,
                                        thickness_reductions |-> <<>>]

C1_Witness ==
    /\ Returned("thickness_reductions")
    /\ Len(pipes) = 3
    /\ Len(response.value) = 2

\* C2: area_reductions[i] = (area(pipe[i]) - area(pipe[i+1])) / area(pipe[i]),
\* with area(pipe) = outer.area - inner.area.
C2_AreaReductionFormula ==
    LET area(p) == ShapeArea(p.outer) - ShapeArea(p.inner)
        holds(series) ==
            \A i \in 1..(Len(pipes) - 1) :
                /\ area(pipes[i]) # 0
                /\ series[i] = Quot(area(pipes[i]) - area(pipes[i + 1]), area(pipes[i]))
    IN  /\ Returned("area_reductions") => holds(response.value)
        /\ Returned("analyze_profile") => holds(response.value.area_reductions)

C2_Witness ==
    /\ Returned("area_reductions")
    /\ Len(pipes) = 3
    /\ response.value[1] > 0
    /\ response.value[2] < 0

\* C3: eccentricity_diffs[i] = eccentricity(pipe[i+1]) - eccentricity(pipe[i]),
\* positive exactly when the eccentricity grew from stage i to stage i+1.
C3_EccentricityDiffFormula ==
    LET ecc(i) == Pipe_eccentricity(pipes[i])
        holds(series) ==
            \A i \in 1..(Len(pipes) - 1) :
                /\ series[i] = ecc(i + 1) - ecc(i)
                /\ (series[i] > 0) <=> (ecc(i + 1) > ecc(i))
    IN  /\ Returned("eccentricity_diffs") => holds(response.value)
        /\ Returned("analyze_profile") => holds(response.value.eccentricity_diffs)

C3_Witness ==
    /\ Returned("eccentricity_diffs")
    /\ Len(pipes) = 3
    /\ response.value[1] > 0
    /\ response.value[2] < 0

\* C4: thickness_reductions[i][k] = (t_i[k] - t_{i+1}[k]) / t_i[k] for the five
\* landmarks k, t_i the thickness of pipe i; each row has 5 entries, also when
\* the two pipes are of different classes.
C4_ThicknessReductionFormula ==
    LET t(i) == Thickness(pipes[i]).value
        holds(rows) ==
            \A i \in 1..(Len(pipes) - 1) :
                /\ Len(rows[i]) = 5
                /\ \A k \in 1..5 : rows[i][k] = NpDiv(t(i)[k] - t(i + 1)[k], t(i)[k])
    IN  /\ Returned("thickness_reductions") => holds(response.value)
        /\ Returned("analyze_profile") => holds(response.value.thickness_reductions)

C4_Witness ==
    /\ Returned("thickness_reductions")
    /\ Len(pipes) = 3
    /\ pipes[1].class = "CircleCircle"
    /\ pipes[2].class = "SplineSpline"
    /\ pipes[3].class = "RectRect"
    /\ \A i \in 1..2, k \in 1..5 : response.value[i][k].class = "finite"

ZeroThickness(p) ==
    /\ Thickness(p).outcome = "ok"
    /\ \E k \in 1..5 : Thickness(p).value[k] = 0

\* C6 (as claimed): when a thickness component of pipe[i], i < N - 1, is zero,
\* thickness_reductions signals an error and returns no series.
C6_ZeroThicknessFails ==
    (/\ response.op = "thickness_reductions"
     /\ \E i \in 1..(Len(pipes) - 1) : ZeroThickness(pipes[i]))
        => response.outcome # "ok"

\* C7: when area(pipe[i]) = 0 for some i < N - 1, area_reductions raises
\* ZeroDivisionError and returns nothing (no partial series); the API request
\* fails with the same error.
C7_ZeroAreaRaises ==
    (/\ response.op \in {"area_reductions", "analyze_profile"}
     /\ \E i \in 1..(Len(pipes) - 1) : Pipe_area(pipes[i]) = 0)
        => /\ response.outcome = "ZeroDivisionError"
           /\ response.value = <<>>

C7_Witness ==
    /\ response.op = "area_reductions"
    /\ Len(pipes) = 3
    /\ Pipe_area(pipes[1]) # 0
    /\ Pipe_area(pipes[2]) = 0
    /\ response.outcome = "ZeroDivisionError"

\* C8: element i of each series is the element of the two-stage process
\* <<pipe[i], pipe[i+1]>> (so it depends on these two pipes, in this order, and
\* on nothing else), and the API hands ProcessAnalysis the pipes of the
\* payload in payload order.
C8_ElementFromItsPair ==
    /\ response.op = "analyze_profile"
          => /\ Len(pipes) = Len(profile)
             /\ \A i \in 1..Len(profile) : pipes[i] = pipe_from_payload(profile[i])
    /\ \A i \in 1..(Len(pipes) - 1) :
          LET two == <<pipes[i], pipes[i + 1]>>
          IN  /\ Returned("area_reductions")
                    => area_reductions(two) = Ok(<<response.value[i]>>)
              /\ Returned("eccentricity_diffs")
                    => eccentricity_diffs(two) = Ok(<<response.value[i]>>)
              /\ Returned("thickness_reductions")
                    => thickness_reductions(two) = Ok(<<response.value[i]>>)
              /\ Returned("analyze_profile")
                    => /\ area_reductions(two) = Ok(<<response.value.area_reductions[i]>>)
                       /\ eccentricity_diffs(two)
                             = Ok(<<response.value.eccentricity_diffs[i]>>)
                       /\ thickness_reductions(two)
                             = Ok(<<response.value.thickness_reductions[i]>>)

C8_Witness ==
    /\ Returned("analyze_profile")
    /\ Len(profile) = 3
    /\ profile[1] # profile[2]
    /\ profile[2] # profile[3]
    /\ profile[1] # profile[3]

\* C16 (as claimed): ProcessPipeline.eccentricity_diffs returns, for the same
\* pipe sequence, the series that ProcessAnalysis.eccentricity_diffs returns.
C16_OneSignConvention ==
    response.op = "pipeline_eccentricity_diffs"
        => /\ response.outcome = eccentricity_diffs(pipes).outcome
           /\ response.value = eccentricity_diffs(pipes).value

\* the shape variant of a pipe class of the API
VariantOfPipeType(pipe_type) ==
    CASE pipe_type = "CircleCircle" -> "Circle"
      [] pipe_type = "RectRect" -> "Rect"
      [] pipe_type = "SplineSpline" -> "CubicSplineShape"

\* C26 (as claimed): every pipe that pipe_from_payload builds for a request
\* is of the class named by pipe_type and has an outer and an inner shape of
\* that class's variant; a payload whose shapes do not match its pipe_type
\* yields no pipe.
C26_PipeOfItsVariant ==
    (caller = "api" /\ response.op = "analyze_profile")
        => \A i \in 1..Len(pipes) :
              /\ pipes[i].class = profile[i].pipe_type
              /\ pipes[i].outer.kind = VariantOfPipeType(profile[i].pipe_type)
              /\ pipes[i].inner.kind = VariantOfPipeType(profile[i].pipe_type)

----------------------------------------------------------------------------
(* Properties of Pipe.thickness (checked under SpecPipe) *)

\* C5: thickness of a pipe whose outer and inner shapes are of different
\* variants raises AttributeError, whichever class wraps the pair: no array is
\* returned, and the condition is not the numeric ZeroDivisionError.
C5_MixedPairRejected ==
    (/\ response.op = "thickness"
     /\ pipes[1].outer.kind # pipes[1].inner.kind)
        => /\ response.outcome = "AttributeError"
           /\ response.value = <<>>

C5_Witness ==
    /\ response.op = "thickness"
    /\ pipes[1].class = "CircleCircle"
    /\ pipes[1].outer.kind = "Circle"
    /\ pipes[1].inner.kind = "Rect"
    /\ response.outcome = "AttributeError"

\* C9: the thickness of a CircleCircle of two Circles has 5 entries, all equal
\* to (outer.diameter - inner.diameter) / 2, whatever the two origins.
C9_CircleCircleThickness ==
    (/\ response.op = "thickness"
     /\ pipes[1].class = "CircleCircle"
     /\ pipes[1].outer.kind = "Circle"
     /\ pipes[1].inner.kind = "Circle")
        => /\ response.outcome = "ok"
           /\ Len(response.value) = 5
           /\ \A k \in 1..5 :
                 response.value[k]
                    = Quot(pipes[1].outer.diameter - pipes[1].inner.diameter, F(2))

C9_Witness ==
    /\ Returned("thickness")
    /\ pipes[1].class = "CircleCircle"
    /\ pipes[1].outer.kind = "Circle"
    /\ pipes[1].inner.kind = "Circle"
    /\ pipes[1].outer.origin # pipes[1].inner.origin
    /\ pipes[1].outer.diameter > pipes[1].inner.diameter

\* C10 (as claimed): the thickness of a RectRect of two Rects is measured
\* between the landmarks of get_rect_points: the vertical gap of the two Top
\* points, the horizontal gap of the two Right points, the vertical gap of the
\* two Bottom points.
C10_RectRectLandmarks ==
    (/\ Returned("thickness")
     /\ pipes[1].class = "RectRect"
     /\ pipes[1].outer.kind = "Rect"
     /\ pipes[1].inner.kind = "Rect")
        => LET o == get_rect_points(pipes[1].outer)
               i == get_rect_points(pipes[1].inner)
           IN  /\ response.value[1] = Abs(o[1][2] - i[1][2])
               /\ response.value[3] = Abs(o[3][1] - i[3][1])
               /\ response.value[5] = Abs(o[5][2] - i[5][2])

\* C11: the thickness of a SplineSpline of two CubicSplineShapes is taken at the
\* first 5 of the 8 vertices of each shape: entries 0 and 4 are the absolute
\* y-difference, entry 2 the absolute x-difference, entries 1 and 3 the
\* Euclidean distance (the square root, at the model's resolution, of
\* dx^2 + dy^2).
C11_SplineSplineThickness ==
    (/\ response.op = "thickness"
     /\ pipes[1].class = "SplineSpline"
     /\ pipes[1].outer.kind = "CubicSplineShape"
     /\ pipes[1].inner.kind = "CubicSplineShape")
        => LET ov == CubicSplineShape_vertices(pipes[1].outer)
               iv == CubicSplineShape_vertices(pipes[1].inner)
               dx(k) == ov[k][1] - iv[k][1]
               dy(k) == ov[k][2] - iv[k][2]
               sq(k) == Scale * (Mul(dx(k), dx(k)) + Mul(dy(k), dy(k)))
               v == response.value
           IN  /\ Len(ov) = 8
               /\ Len(iv) = 8
               /\ response.outcome = "ok"
               /\ Len(v) = 5
               /\ v[1] = Abs(dy(1))
               /\ v[3] = Abs(dx(3))
               /\ v[5] = Abs(dy(5))
               /\ \A k \in {2, 4} :
                     /\ v[k] >= 0
                     /\ v[k] * v[k] <= sq(k)
                     /\ sq(k) < (v[k] + 1) * (v[k] + 1)

C11_Witness ==
    /\ Returned("thickness")
    /\ pipes[1].class = "SplineSpline"
    /\ pipes[1].outer.kind = "CubicSplineShape"
    /\ pipes[1].inner.kind = "CubicSplineShape"
    /\ pipes[1].outer.origin[1] # pipes[1].inner.origin[1]
    /\ pipes[1].outer.origin[2] # pipes[1].inner.origin[2]
    /\ pipes[1].outer.v1 # pipes[1].inner.v1
    /\ response.value[2] > response.value[1]

\* the radius generate_rounded_rect_verts draws a Rect's corners with
ClampedRadius(s) ==
    Min(s.fillet_radius, Min(Quot(s.width, F(2)), Quot(s.length, F(2))))

WithClampedRadius(s) == [s EXCEPT !.fillet_radius = ClampedRadius(s)]

\* C14 (as claimed): every routine that places points with the fillet radius
\* of a Rect uses the radius clamped to min(length, width) / 2: the outline of
\* get_vertices, the landmark points of get_rect_points and the landmark points
\* of RectRect.thickness are those of the Rect with the clamped radius.
C14_FilletClampedEverywhere ==
    /\ (Returned("get_vertices") /\ pipes[1].outer.kind = "Rect")
          => response.value = Rect_vertices(WithClampedRadius(pipes[1].outer))
    /\ (Returned("get_rect_points") /\ pipes[1].outer.kind = "Rect")
          => response.value = get_rect_points(WithClampedRadius(pipes[1].outer))
    /\ (/\ Returned("thickness")
        /\ pipes[1].class = "RectRect"
        /\ pipes[1].outer.kind = "Rect"
        /\ pipes[1].inner.kind = "Rect")
          => response.value
                = LandmarkDistances(RectRect_pts(WithClampedRadius(pipes[1].outer)),
                                    RectRect_pts(WithClampedRadius(pipes[1].inner)))

----------------------------------------------------------------------------
(* Properties of single shapes (checked under SpecShape) *)

\* C12 (as claimed): the 8 vertices of every CubicSplineShape are symmetric
\* about both axes through its origin: the mirror image of each vertex in the
\* horizontal axis y = oy, and in the vertical axis x = ox, is a vertex too.
C12_VerticesSymmetric ==
    Returned("shape_vertices")
        => LET verts == {response.value[k] : k \in 1..Len(response.value)}
               ox == shape.origin[1]
               oy == shape.origin[2]
           IN  \A v \in verts :
                  /\ <<v[1], 2 * oy - v[2]>> \in verts
                  /\ <<2 * ox - v[1], v[2]>> \in verts

\* C13 (as claimed): the area of every shape that was constructed, directly or
\* from an accepted payload, is >= 0.
C13_AreaNonNegative ==
    Returned("shape_area") => response.value >= 0

\* C15 (as claimed): no Circle exists with diameter <= 0 and no Rect with
\* length <= 0 or width <= 0, whichever way it was constructed.
C15_NonPositiveRejected ==
    /\ shape.kind = "Circle" => shape.diameter > 0
    /\ shape.kind = "Rect" => shape.length > 0 /\ shape.width > 0

----------------------------------------------------------------------------
(* Properties of the template repository (checked under SpecCache) *)

\* C18: once a call of load_template_payloads has succeeded, the cached catalog
\* never changes, every call made from then on returns it and does not enter
\* the function body (no file is read or validated, no miss is counted); a call
\* that fails returns ValueError and stores nothing, and while nothing is
\* stored every call enters the function body.
C18_LoadedAndCachedOnce ==
    [][/\ lru_cache.entry.cached
           => /\ lru_cache'.entry = lru_cache.entry
              /\ lru_cache'.misses = lru_cache.misses
              /\ loading' \subseteq loading
              /\ lru_cache'.hits > lru_cache.hits
                    => response' = Response("load_template_payloads",
                                            Ok(lru_cache.entry.value))
       /\ ~lru_cache.entry.cached
           => /\ lru_cache'.hits = lru_cache.hits
              /\ lru_cache'.entry.cached
                    => /\ response' = Response("load_template_payloads",
                                               Ok(lru_cache'.entry.value))
                       /\ load_template_payloads(data_dir) = Ok(lru_cache'.entry.value)
              /\ (loading' # loading /\ response'.outcome = "ValueError")
                    => lru_cache'.entry = NoEntry
      ]_vars

\* a failed load, then a successful one, then a file change that a new load
\* would notice, then a call answered from the cache
C18_Witness ==
    /\ lru_cache.entry.cached
    /\ lru_cache.misses = 2
    /\ lru_cache.hits = 1
    /\ loading = {}
    /\ response = Response("load_template_payloads", Ok(lru_cache.entry.value))
    /\ load_template_payloads(data_dir) # Ok(lru_cache.entry.value)

\* the shoelace term that joins the last sample to the first
WrapTerm(x, y) == Mul(x[Len(x)], y[1]) - Mul(x[1], y[Len(x)])

\* C29: the samples of a CubicSplineShape start (t = 0) and end (t = 8) at
\* its first vertex, so the term that wraps the last sample to the first is
\* zero and the area, summed over consecutive sample pairs only, is the area
\* of the full shoelace sum.
C29_SampledCurveClosed ==
    (shape.kind = "CubicSplineShape" /\ response.op = "shape_area")
        => LET pts == get_spline_points(shape, AreaPoints)
               x == pts[1]
               y == pts[2]
               first == CubicSplineShape_vertices(shape)[1]
           IN  /\ <<x[1], y[1]>> = first
               /\ <<x[AreaPoints], y[AreaPoints]>> = first
               /\ WrapTerm(x, y) = 0
               /\ response.value = Abs(ShoelaceSum(x, y, 1) + WrapTerm(x, y)) \div 2

\* the area of a spline shape was read whose first vertex is off both axes
C29_Witness ==
    /\ shape.kind = "CubicSplineShape"
    /\ response.op = "shape_area"
    /\ response.value > 0
    /\ CubicSplineShape_vertices(shape)[1][1] # 0
    /\ CubicSplineShape_vertices(shape)[1][2] # 0

----------------------------------------------------------------------------
(* Properties of the dashboard session (checked under SpecDash) *)

\* the pipe sequence "Load template" would put into the session now
TemplateLoaded(name) ==
    LET new == AssignEditablePipes(heap, name)
    IN  new.heap[new.id]

\* C17: whatever edits (save, debounced apply, add, insert, delete) have been
\* made, they touched the session's own list only: the fixture list is the
\* one that was imported, the session's list is another object, and "Load
\* template" yields the template's original pipe sequence.
C17_TemplatesUnchanged ==
    /\ heap["fixtures.PROCESS"] = FIXTURE_PROCESS
    /\ editable_pipes # "fixtures.PROCESS"
    /\ TemplateLoaded("PROCESS") = FIXTURE_PROCESS
    /\ TemplateLoaded("FINISH") = <<FIXTURE_FINISH>>

\* a debounced edit has been applied and the edited process differs from the
\* loaded template in a slot
C17_Witness ==
    /\ transition_applied_seq # <<>>
    /\ Len(EditablePipes) = Len(FIXTURE_PROCESS)
    /\ EditablePipes[1] # FIXTURE_PROCESS[1]
    /\ EditablePipes[2] = FIXTURE_PROCESS[2]

\* the poller marks transition idx as applied in this step
PollApplied(idx) ==
    /\ idx \in DOMAIN transition_applied_seq'
    /\ transition_applied_seq'[idx] # DictGet(transition_applied_seq, idx, 0)

\* an input of transition idx is edited in this step
Edited(idx) ==
    /\ idx \in DOMAIN transition_edit_seq'
    /\ transition_edit_seq'[idx] # DictGet(transition_edit_seq, idx, 0)

\* C19: the poller applies a transition, and writes a slot of editable_pipes,
\* only for a transition that is dirty (edit_seq > applied_seq) and whose last
\* edit is at least debounce_seconds old; an edit sets last_change_at to the
\* current time, so the wait starts again.
C19_AppliedOnlyAfterDebounce ==
    [][/\ \A idx \in 0..(MaxRows - 2) :
             PollApplied(idx)
                 => /\ DictGet(transition_edit_seq, idx, 0)
                          > DictGet(transition_applied_seq, idx, 0)
                    /\ idx \in DOMAIN transition_last_change_at
                    /\ now - transition_last_change_at[idx] >= debounce_seconds
       /\ Poll =>
             \A slot \in 0..(Len(EditablePipes) - 1) :
                 EditablePipes'[slot + 1] # EditablePipes[slot + 1]
                     => \E idx \in {slot - 1, slot} :
                           /\ idx \in DOMAIN transition_last_change_at
                           /\ DictGet(transition_edit_seq, idx, 0)
                                 > DictGet(transition_applied_seq, idx, 0)
                           /\ now - transition_last_change_at[idx] >= debounce_seconds
       /\ \A idx \in 0..(MaxRows - 2) :
             Edited(idx)
                 => /\ transition_last_change_at'[idx] = now'
                    /\ transition_edit_seq'[idx] > DictGet(transition_applied_seq', idx, 0)
                    /\ now' - transition_last_change_at'[idx] < debounce_seconds'
      ]_vars

\* a transition was edited twice, the second time later than the first, and
\* both edits were applied when the second one was old enough
C19_Witness ==
    \E idx \in DOMAIN transition_applied_seq :
        /\ transition_edit_seq[idx] = MaxEdits
        /\ transition_applied_seq[idx] = MaxEdits
        /\ transition_last_change_at[idx] > 0
        /\ now - transition_last_change_at[idx] >= debounce_seconds

\* C20 (as claimed): after a poll, every transition idx it applied has its
\* pending left pipe in editable_pipes[idx], its pending right pipe in
\* editable_pipes[idx + 1] and applied_seq[idx] = edit_seq[idx], also when two
\* adjacent transitions are applied in the same poll.
C20_AppliedTransitionsWritten ==
    [][\A idx \in 0..(MaxRows - 2) :
          PollApplied(idx)
              => /\ EditablePipes'[idx + 1] = pending_pipe_updates[idx][1]
                 /\ EditablePipes'[idx + 2] = pending_pipe_updates[idx][2]
                 /\ transition_applied_seq'[idx] = transition_edit_seq'[idx]
      ]_vars

\* transition idx has a pending update, is dirty and its last edit is at
\* least debounce_seconds old
Eligible(idx) ==
    /\ idx \in DOMAIN pending_pipe_updates
    /\ idx \in DOMAIN transition_last_change_at
    /\ DictGet(transition_edit_seq, idx, 0) > DictGet(transition_applied_seq, idx, 0)
    /\ now - transition_last_change_at[idx] >= debounce_seconds

\* C21: a poll keeps the list object and its length, and leaves every
\* position unchanged that is not position idx or idx + 1 of a transition
\* that is dirty and past the debounce window; a transition that is not dirty
\* or still inside the window is not marked as applied.
C21_PollWritesOnlyEligibleSlots ==
    [][Poll =>
          /\ editable_pipes' = editable_pipes
          /\ Len(EditablePipes') = Len(EditablePipes)
          /\ \A slot \in 0..(Len(EditablePipes) - 1) :
                (~Eligible(slot) /\ ~Eligible(slot - 1))
                    => EditablePipes'[slot + 1] = EditablePipes[slot + 1]
          /\ \A idx \in DOMAIN pending_pipe_updates :
                ~Eligible(idx)
                    => DictGet(transition_applied_seq', idx, 0)
                          = DictGet(transition_applied_seq, idx, 0)
      ]_vars

\* a poll has applied one transition while another one, edited later, is
\* still dirty and its pending pipes are not in the list
C21_Witness ==
    /\ RowsRendered(EditablePipes)
    /\ \E i, j \in DOMAIN pending_pipe_updates :
          /\ i \in DOMAIN transition_applied_seq
          /\ transition_applied_seq[i] = transition_edit_seq[i]
          /\ j \in DOMAIN transition_edit_seq
          /\ transition_edit_seq[j] > DictGet(transition_applied_seq, j, 0)
          /\ pending_pipe_updates[j][2] # EditablePipes[j + 2]

\* C22: a poll requests the full rerun exactly when it applied at least one
\* transition, once however many it applied, and the rerun starts from empty
\* pending updates (what is stored afterwards is what the rerun rendered); a
\* poll that applies nothing requests no rerun and leaves the session state
\* as it was.
C22_RerunIffApplied ==
    [][Poll =>
          /\ response'.outcome = "ok"
          /\ response'.value.reruns \in {0, 1}
          /\ response'.value.reruns = 1
                <=> \E idx \in 0..(MaxRows - 2) : PollApplied(idx)
          /\ response'.value.reruns = 1
                => pending_pipe_updates' =
                      IF RowsRendered(EditablePipes')
                      THEN render_transition_rows(widget_identity, EditablePipes,
                                                  pending_pipe_updates, EditablePipes')
                      ELSE <<>>
          /\ (\A idx \in 0..(MaxRows - 2) : ~PollApplied(idx))
                => /\ response'.value.reruns = 0
                   /\ UNCHANGED dashVars
      ]_vars

\* the last poll applied two transitions and requested one rerun
C22_Witness ==
    /\ response.op = "poll"
    /\ response.outcome = "ok"
    /\ Cardinality(response.value.applied) = 2
    /\ response.value.reruns = 1
    /\ transition_applied_seq = transition_edit_seq

C25_AppliedNotAheadOfEdits ==
    \A idx \in 0..(MaxRows - 2) :
        DictGet(transition_applied_seq, idx, 0) <= DictGet(transition_edit_seq, idx, 0)

\* a transition was edited, applied and edited again, and the process has
\* been reset before (it is not a loaded template)
C25_Witness ==
    /\ Len(EditablePipes) = 2
    /\ 0 \in DOMAIN transition_applied_seq
    /\ transition_applied_seq[0] = 1
    /\ transition_edit_seq[0] = MaxEdits

\* C27: the add-pipe form with "Insert before Pipe N" (1 <= N <= len) makes
\* the new pipe the N-th pipe, keeps the pipes before it and moves the former
\* pipes N.. one place later; with "Append to end" (or an empty process) the
\* new pipe is the last one and the former pipes keep their places; the
\* length grows by one.
C27_InsertBeforeOrAppend ==
    [][\A n \in 0..MaxRows, new_pipe \in FormValues :
          AddPipe(n, new_pipe)
              => LET old == EditablePipes
                     new == EditablePipes'
                     place == IF n > 0 THEN n ELSE Len(old) + 1
                 IN  /\ Len(new) = Len(old) + 1
                     /\ new[place] = new_pipe
                     /\ \A k \in 1..Len(old) :
                           IF k < place THEN new[k] = old[k] ELSE new[k + 1] = old[k]
      ]_vars

\* a pipe was inserted before Pipe 2 of a process of two pipes
C27_Witness ==
    /\ EditablePipes = <<StageCCa, StageCCz, StageSSa>>
    /\ transition_edit_seq = <<>>
    /\ transition_applied_seq = <<>>

\* C28: a form save and a debounced apply keep the length of the process and
\* the class of the pipe at every position; the pending updates the rows
\* store are of the classes of the pipes they were rendered for.
C28_EditsKeepPipeTypes ==
    [][/\ (Poll \/ \E updated_pipe \in InputValues : SaveSinglePipe(updated_pipe))
           => /\ Len(EditablePipes') = Len(EditablePipes)
              /\ \A k \in 1..Len(EditablePipes) :
                    EditablePipes'[k].class = EditablePipes[k].class
       /\ \A idx \in DOMAIN pending_pipe_updates' :
             /\ pending_pipe_updates'[idx][1].class = EditablePipes'[idx + 1].class
             /\ pending_pipe_updates'[idx][2].class = EditablePipes'[idx + 2].class
      ]_vars

\* the last poll applied edits of the second and the third pipe of the
\* loaded process
C28_Witness ==
    /\ response.op = "poll"
    /\ response.outcome = "ok"
    /\ response.value.reruns = 1
    /\ EditablePipes = <<StageCCa, StageSSb, StageRRb>>

----------------------------------------------------------------------------
(* Progress of the debounced edits (checked under SpecDashQuiet) *)

\* transition idx is dirty, has had its last edit, and the clock of the
\* model reaches the end of its wait
DirtyForGood(idx) ==
    /\ idx \in DOMAIN transition_last_change_at
    /\ DictGet(transition_edit_seq, idx, 0) = MaxEdits
    /\ MaxEdits > DictGet(transition_applied_seq, idx, 0)
    /\ transition_last_change_at[idx] + debounce_seconds <= MaxTime

\* C23: with no further edit of it, no add, delete or template load, and the
\* rows and the poller still running, a dirty transition is eventually
\* applied; in the end no transition is left that a poll would apply, so the
\* poller requests no further rerun, and a transition once applied is not
\* applied again (its applied_seq has reached its edit_seq).
C23_DirtyEventuallyApplied ==
    /\ \A idx \in 0..(MaxRows - 2) :
          DirtyForGood(idx)
              ~> \/ DictGet(transition_applied_seq, idx, 0)
                       = DictGet(transition_edit_seq, idx, 0)
                 \/ ~PollerRuns(EditablePipes)
    /\ <>[](\/ ~PollerRuns(EditablePipes)
            \/ \A idx \in 0..(MaxRows - 2) : ~Eligible(idx))
    /\ [][\A idx \in 0..(MaxRows - 2) :
             PollApplied(idx)
                 => /\ transition_applied_seq'[idx] = transition_edit_seq[idx]
                    /\ ~Eligible(idx)']_vars

\* one transition was applied by an earlier poll, the rows were rendered
\* again, and the last poll applied the other one after its last edit
C23_Witness ==
    /\ response.op = "poll"
    /\ response.outcome = "ok"
    /\ response.value.applied = {1}
    /\ transition_applied_seq = transition_edit_seq
    /\ DOMAIN transition_applied_seq = {0, 1}
    /\ transition_edit_seq[1] = MaxEdits
    /\ transition_last_change_at[0] < transition_last_change_at[1]


====
